---- MODULE Spec2Model ----
(***************************************************************************)
(* A model of tracing/PRESUBMIT.py: the two presubmit checks               *)
(* CheckSqlModules and CheckPerfettoTestsTag, run by a presubmit host on   *)
(* one change.  Paths, patterns and command arguments are sequences of     *)
(* one-character strings, so that prefix matching and path joining are     *)
(* computed character by character.                                        *)
(***************************************************************************)
EXTENDS Integers, Sequences, FiniteSets

\* The longest list of affected files of a change that is explored.
MaxFiles == 2

(***************************************************************************)
(* String literals of the source.                                          *)
(***************************************************************************)
\* '^base/tracing/stdlib/'
STDLIB_PATTERN ==
  <<"^","b","a","s","e","/","t","r","a","c","i","n","g","/","s","t","d","l",
    "i","b","/">>

\* '^base/tracing/test/'
TEST_PATTERN ==
  <<"^","b","a","s","e","/","t","r","a","c","i","n","g","/","t","e","s","t",
    "/">>

\* A variant whose patterns lack the closing slash.
STDLIB_PATHS_NoSlash ==
  <<SubSeq(STDLIB_PATTERN, 1, Len(STDLIB_PATTERN) - 1),
    SubSeq(TEST_PATTERN, 1, Len(TEST_PATTERN) - 1)>>

\* _STDLIB_PATHS: the tuple of the two patterns, in source order.
STDLIB_PATHS ==
  <<STDLIB_PATTERN, TEST_PATTERN>>

\* '..'
DotDot ==
  <<".",".">>

\* 'third_party'
ThirdParty ==
  <<"t","h","i","r","d","_","p","a","r","t","y">>

\* 'perfetto'
Perfetto ==
  <<"p","e","r","f","e","t","t","o">>

\* 'tools'
Tools ==
  <<"t","o","o","l","s">>

\* 'check_sql_modules.py'
CheckSqlModulesPy ==
  <<"c","h","e","c","k","_","s","q","l","_","m","o","d","u","l","e","s",".",
    "p","y">>

\* '--stdlib-sources'
StdlibSourcesFlag ==
  <<"-","-","s","t","d","l","i","b","-","s","o","u","r","c","e","s">>

\* './stdlib/chrome'
StdlibChromeDir ==
  <<".","/","s","t","d","l","i","b","/","c","h","r","o","m","e">>

\* The grave accent (U+0060) of the source's message, a character a TLA+
\* string cannot hold.
GraveAccent ==
  "[U+0060]"

\* The message of lines 47-52: four adjacent literals, concatenated.
MESSAGE ==
  "Must provide PERFETTO_TESTS="
  \o GraveAccent \o "autoninja -C out/Default perfetto_diff_tests && "
  \o "out/Default/bin/run_perfetto_diff_tests" \o GraveAccent
  \o " line in CL description."
  \o "\nPlease ensure the Perfetto diff tests pass before submitting."

(***************************************************************************)
(* The host's inputs: the affected files' local paths, the values of the   *)
(* PERFETTO_TESTS field, the presubmit local path, the python3 executable, *)
(* the external tool's exit codes.                                         *)
(***************************************************************************)
\* 'base/tracing/stdlib/foo.sql'
PathStdlibFoo ==
  <<"b","a","s","e","/","t","r","a","c","i","n","g","/","s","t","d","l","i",
    "b","/","f","o","o",".","s","q","l">>

\* 'base/tracing/test/d.py'
PathTestDiff ==
  <<"b","a","s","e","/","t","r","a","c","i","n","g","/","t","e","s","t","/",
    "d",".","p","y">>

\* 'unrelated/file.cc'
PathUnrelated ==
  <<"u","n","r","e","l","a","t","e","d","/","f","i","l","e",".","c","c">>

\* 'third_party/base/tracing/stdlib/x.sql'
PathNested ==
  <<"t","h","i","r","d","_","p","a","r","t","y","/","b","a","s","e","/","t",
    "r","a","c","i","n","g","/","s","t","d","l","i","b","/","x",".","s","q",
    "l">>

\* 'base/tracing/stdlib_extra/x'
PathStdlibExtra ==
  <<"b","a","s","e","/","t","r","a","c","i","n","g","/","s","t","d","l","i",
    "b","_","e","x","t","r","a","/","x">>

\* 'base/tracing/tests/x'
PathTests ==
  <<"b","a","s","e","/","t","r","a","c","i","n","g","/","t","e","s","t","s",
    "/","x">>

Paths ==
  {PathStdlibFoo, PathTestDiff, PathUnrelated, PathNested, PathStdlibExtra,
   PathTests}

\* change.PERFETTO_TESTS: None when the description has no such field, else
\* the field's text (possibly empty).
TagNone ==
  [present |-> FALSE, text |-> ""]

TagValues ==
  {TagNone,
   [present |-> TRUE, text |-> ""],
   [present |-> TRUE, text |-> "ran locally"]}

\* '/c/src/base/tracing'
LocalPathA ==
  <<"/","c","/","s","r","c","/","b","a","s","e","/","t","r","a","c","i","n",
    "g">>

\* '/w/base/tracing'
LocalPathB ==
  <<"/","w","/","b","a","s","e","/","t","r","a","c","i","n","g">>

\* '/usr/bin/python3'
Python3A ==
  <<"/","u","s","r","/","b","i","n","/","p","y","t","h","o","n","3">>

\* 'vpython3'
Python3B ==
  <<"v","p","y","t","h","o","n","3">>

Python3Executables ==
  {Python3A, Python3B}

LocalPaths ==
  {LocalPathA, LocalPathB}

\* subprocess.call returns the child's exit status.
ExitCodes ==
  {0, 1, 2}

FileLists ==
  UNION {[1..n -> Paths] : n \in 0..MaxFiles}

(***************************************************************************)
(* Pure helpers.                                                           *)
(***************************************************************************)
\* s begins with the characters of p.
StartsWith(s, p) ==
  /\ Len(p) <= Len(s)
  /\ SubSeq(s, 1, Len(p)) = p

\* p occurs in s at some position.
Contains(s, p) ==
  \E i \in 0..(Len(s) - Len(p)) : SubSeq(s, i + 1, i + Len(p)) = p

\* A pattern of literal characters with an optional leading '^': with the
\* caret it matches only at the start of the path.
ReMatches(pattern, path) ==
  IF Len(pattern) > 0 /\ pattern[1] = "^"
    THEN StartsWith(path, Tail(pattern))
    ELSE Contains(path, pattern)

\* input_api.FilterSourceFile(affected_file, files_to_check=...): the file's
\* local path matches one of the patterns.
FilterSourceFile(affected_file, files_to_check) ==
  \E i \in DOMAIN files_to_check : ReMatches(files_to_check[i], affected_file)

\* A variant that filters with the patterns lacking the closing slash.
FileFilterNoSlash(affected_file) ==
  FilterSourceFile(affected_file, STDLIB_PATHS_NoSlash)

\* The nested FileFilter of CheckPerfettoTestsTag.
FileFilter(affected_file) ==
  FilterSourceFile(affected_file, STDLIB_PATHS)

\* input_api.AffectedFiles(file_filter=FileFilter): the affected files the
\* filter accepts, in order.
AffectedFiles(files) ==
  SelectSeq(files, FileFilter)

\* A variant that also accepts the empty list.
PyAnyOffByOne(xs) ==
  Len(xs) >= 0

\* any(xs) over a list of affected-file objects: true iff the list is not
\* empty.
PyAny(xs) ==
  Len(xs) > 0

\* Python truthiness of change.PERFETTO_TESTS: None and '' are falsy.
Truthy(v) ==
  v.present /\ v.text # ""

\* os.path.join of two components (posix).
Join2(a, b) ==
  IF Len(b) > 0 /\ b[1] = "/" THEN b
  ELSE IF Len(a) = 0 \/ a[Len(a)] = "/" THEN a \o b
  ELSE a \o <<"/">> \o b

\* os.path.join(a, *ps).
RECURSIVE Join(_, _)
Join(a, ps) ==
  IF Len(ps) = 0 THEN a ELSE Join(Join2(a, Head(ps)), Tail(ps))

\* A variant that climbs one level only.
ChromiumSrcDirOneUp(stdlib_dir) ==
  Join(stdlib_dir, <<DotDot>>)

\* Line 11: chromium_src_dir.
ChromiumSrcDir(stdlib_dir) ==
  Join(stdlib_dir, <<DotDot, DotDot>>)

\* Lines 12-14: tool.
ToolPath(stdlib_dir) ==
  Join(ChromiumSrcDir(stdlib_dir),
       <<ThirdParty, Perfetto, Tools, CheckSqlModulesPy>>)

\* Lines 15-20: cmd.
Cmd(python3, stdlib_dir) ==
  <<python3, ToolPath(stdlib_dir), StdlibSourcesFlag, StdlibChromeDir>>

\* A blocking result, which the source does not build.
ErrorResult ==
  [kind |-> "PresubmitError", message |-> "check_sql_modules.py failed"]

\* A variant that reports a failing tool.
SqlResultEnforced(rc) ==
  IF rc # 0 THEN <<ErrorResult>> ELSE <<>>

\* Lines 21-25: the value returned for the child's exit status.
SqlResult(rc) ==
  IF rc # 0 THEN <<>> ELSE <<>>

\* Line 53: output_api.PresubmitNotifyResult(message).
PresubmitNotifyResult(message) ==
  [kind |-> "PresubmitNotifyResult", message |-> message]

\* A variant that accepts a present but empty field.
TagResultPresentOnly(tag) ==
  IF tag.present THEN <<>> ELSE <<PresubmitNotifyResult(MESSAGE)>>

\* A variant that ignores the field.
TagResultAlways(tag) ==
  <<PresubmitNotifyResult(MESSAGE)>>

\* Lines 44-53: the value returned once a file matched.
TagResult(tag) ==
  IF Truthy(tag) THEN <<>> ELSE <<PresubmitNotifyResult(MESSAGE)>>

(***************************************************************************)
(* State.                                                                  *)
(*   change, presubmit_local_path, python3_executable: the host's context  *)
(*     (input_api), read by the checks.                                    *)
(*   sql_pc, cmd, sql_result: CheckSqlModules' position, its local cmd and *)
(*     the value it returned.                                              *)
(*   child, returncode, spawned, calls: the child process of               *)
(*     subprocess.call, its exit status, the command lines of the children *)
(*     started so far, and the number of subprocess.call invocations.      *)
(*   tag_pc, filtered, tag_result, host_calls: CheckPerfettoTestsTag's     *)
(*     position, the files its filter kept, the value it returned, and the *)
(*     host attributes it has used so far, in order.                       *)
(***************************************************************************)
VARIABLES change, presubmit_local_path, python3_executable,
          sql_pc, cmd, sql_result, child, returncode, spawned, calls,
          tag_pc, filtered, tag_result, host_calls

hostVars == <<change, presubmit_local_path, python3_executable>>

sqlVars == <<sql_pc, cmd, sql_result, child, returncode, spawned, calls>>

tagVars == <<tag_pc, filtered, tag_result, host_calls>>

vars == <<hostVars, sqlVars, tagVars>>

\* The host has built its context and is about to call both checks.
Init ==
  /\ change \in [files : FileLists, PERFETTO_TESTS : TagValues]
  /\ presubmit_local_path \in LocalPaths
  /\ python3_executable \in Python3Executables
  /\ sql_pc = "start"
  /\ cmd = <<>>
  /\ sql_result = <<>>
  /\ child = "none"
  /\ returncode = -1
  /\ spawned = <<>>
  /\ calls = 0
  /\ tag_pc = "start"
  /\ filtered = <<>>
  /\ tag_result = <<>>
  /\ host_calls = <<>>

(***************************************************************************)
(* CheckSqlModules.                                                        *)
(***************************************************************************)
\* Lines 10-20: build cmd from the host's local path and interpreter.
SqlBuildCmd ==
  /\ sql_pc = "start"
  /\ cmd' = Cmd(python3_executable, presubmit_local_path)
  /\ sql_pc' = "call"
  /\ UNCHANGED <<sql_result, child, returncode, spawned, calls>>
  /\ UNCHANGED <<hostVars, tagVars>>

\* Line 21, subprocess.call(cmd): the child starts; the caller now waits.
SqlLaunch ==
  /\ sql_pc = "call"
  /\ calls' = calls + 1
  /\ spawned' = Append(spawned, cmd)
  /\ child' = "running"
  /\ sql_pc' = "waiting"
  /\ UNCHANGED <<cmd, sql_result, returncode>>
  /\ UNCHANGED <<hostVars, tagVars>>

\* A variant that swallows the launch failure and reports no findings.
SqlLaunchFailSwallowed ==
  /\ sql_pc = "call"
  /\ calls' = calls + 1
  /\ sql_result' = <<>>
  /\ sql_pc' = "returned"
  /\ UNCHANGED <<cmd, child, returncode, spawned>>
  /\ UNCHANGED <<hostVars, tagVars>>

\* Line 21, subprocess.call(cmd): the child cannot be started; the exception
\* leaves CheckSqlModules, which has no handler.
SqlLaunchFail ==
  /\ sql_pc = "call"
  /\ calls' = calls + 1
  /\ sql_pc' = "raised"
  /\ UNCHANGED <<cmd, sql_result, child, returncode, spawned>>
  /\ UNCHANGED <<hostVars, tagVars>>

\* The external tool exits with some status.
ChildExit ==
  /\ child = "running"
  /\ \E rc \in ExitCodes : returncode' = rc
  /\ child' = "exited"
  /\ UNCHANGED <<sql_pc, cmd, sql_result, spawned, calls>>
  /\ UNCHANGED <<hostVars, tagVars>>

\* The external tool hangs: it will never exit.
ChildHang ==
  /\ child = "running"
  /\ child' = "hung"
  /\ UNCHANGED <<sql_pc, cmd, sql_result, returncode, spawned, calls>>
  /\ UNCHANGED <<hostVars, tagVars>>

\* A variant that does not wait for the child.
SqlReturnNoWait ==
  /\ sql_pc = "waiting"
  /\ sql_result' = <<>>
  /\ sql_pc' = "returned"
  /\ UNCHANGED <<cmd, child, returncode, spawned, calls>>
  /\ UNCHANGED <<hostVars, tagVars>>

\* Lines 21-25: subprocess.call returns the exit status once the child has
\* terminated, and the check returns.
SqlReturn ==
  /\ sql_pc = "waiting"
  /\ child = "exited"
  /\ sql_result' = SqlResult(returncode)
  /\ sql_pc' = "returned"
  /\ UNCHANGED <<cmd, child, returncode, spawned, calls>>
  /\ UNCHANGED <<hostVars, tagVars>>

(***************************************************************************)
(* CheckPerfettoTestsTag.                                                  *)
(***************************************************************************)
\* A variant that reads the description field before filtering the files.
TagFilterReadsFirst ==
  /\ tag_pc = "start"
  /\ filtered' = AffectedFiles(change.files)
  /\ host_calls' = host_calls \o <<"PERFETTO_TESTS", "AffectedFiles">>
  /\ IF PyAny(filtered') /\ ~Truthy(change.PERFETTO_TESTS)
       THEN tag_pc' = "L44" /\ tag_result' = tag_result
       ELSE tag_pc' = "returned" /\ tag_result' = <<>>
  /\ UNCHANGED <<hostVars, sqlVars>>

\* Lines 41-42: filter the affected files; return [] when none is left.
TagFilter ==
  /\ tag_pc = "start"
  /\ filtered' = AffectedFiles(change.files)
  /\ host_calls' = Append(host_calls, "AffectedFiles")
  /\ IF PyAny(filtered')
       THEN tag_pc' = "L44" /\ tag_result' = tag_result
       ELSE tag_pc' = "returned" /\ tag_result' = <<>>
  /\ UNCHANGED <<hostVars, sqlVars>>

\* A variant that runs the diff tests itself.
TagReadDescriptionSpawning ==
  /\ tag_pc = "L44"
  /\ host_calls' = Append(host_calls, "PERFETTO_TESTS")
  /\ tag_result' = TagResult(change.PERFETTO_TESTS)
  /\ tag_pc' = "returned"
  /\ spawned' = Append(spawned, <<>>)
  /\ UNCHANGED <<filtered, hostVars>>
  /\ UNCHANGED <<sql_pc, cmd, sql_result, child, returncode, calls>>

\* Lines 44-53: read change.PERFETTO_TESTS and return.
TagReadDescription ==
  /\ tag_pc = "L44"
  /\ host_calls' = Append(host_calls, "PERFETTO_TESTS")
  /\ tag_result' = TagResult(change.PERFETTO_TESTS)
  /\ tag_pc' = "returned"
  /\ UNCHANGED filtered
  /\ UNCHANGED <<hostVars, sqlVars>>

Next ==
  \/ SqlBuildCmd
  \/ SqlLaunch
  \/ SqlLaunchFail
  \/ ChildExit
  \/ ChildHang
  \/ SqlReturn
  \/ TagFilter
  \/ TagReadDescription

Spec == Init /\ [][Next]_vars

\* subprocess.call returns as soon as the child has terminated, and the
\* thread that called it runs on.
FairSpec == Spec /\ WF_vars(SqlReturn)

(***************************************************************************)
(* Properties.  They are stated with their own reading of the two path     *)
(* prefixes and of a falsy field, not with the operators the actions use.  *)
(***************************************************************************)
\* 'base/tracing/stdlib/'
StdlibPrefix ==
  <<"b","a","s","e","/","t","r","a","c","i","n","g","/","s","t","d","l","i",
    "b","/">>

\* 'base/tracing/test/'
TestPrefix ==
  <<"b","a","s","e","/","t","r","a","c","i","n","g","/","t","e","s","t",
    "/">>

\* '/../..'
UpTwoSuffix ==
  <<"/",".",".","/",".",".">>

\* '/third_party/perfetto/tools/check_sql_modules.py'
ToolSuffix ==
  <<"/","t","h","i","r","d","_","p","a","r","t","y","/","p","e","r","f","e",
    "t","t","o","/","t","o","o","l","s","/","c","h","e","c","k","_","s","q",
    "l","_","m","o","d","u","l","e","s",".","p","y">>

\* The first Len(p) characters of s are those of p.
BeginsWith(s, p) ==
  /\ Len(s) >= Len(p)
  /\ \A i \in 1..Len(p) : s[i] = p[i]

UnderStdlibOrTest(path) ==
  BeginsWith(path, StdlibPrefix) \/ BeginsWith(path, TestPrefix)

MatchingFiles ==
  {i \in DOMAIN change.files : UnderStdlibOrTest(change.files[i])}

\* PERFETTO_TESTS is absent (None) or the empty string.
TagFalsy ==
  \/ ~change.PERFETTO_TESTS.present
  \/ change.PERFETTO_TESTS.text = ""

\* C1: when at least one affected file is under one of the two prefixes and
\* PERFETTO_TESTS is missing or falsy, CheckPerfettoTestsTag returns exactly
\* one result, of the notify kind, whose message contains
\* 'autoninja -C out/Default perfetto_diff_tests', however many files match.
C1_NotifyWhenTagMissing ==
  (tag_pc = "returned" /\ MatchingFiles # {} /\ TagFalsy) =>
    /\ Len(tag_result) = 1
    /\ tag_result[1].kind = "PresubmitNotifyResult"
    /\ tag_result[1].message =
         "Must provide PERFETTO_TESTS=" \o GraveAccent
         \o "autoninja -C out/Default perfetto_diff_tests"
         \o " && out/Default/bin/run_perfetto_diff_tests" \o GraveAccent
         \o " line in CL description."
         \o "\nPlease ensure the Perfetto diff tests pass before submitting."

\* Two matching files, an empty PERFETTO_TESTS field, one result.
C1_Witness ==
  /\ tag_pc = "returned"
  /\ Cardinality(MatchingFiles) = 2
  /\ change.PERFETTO_TESTS.present
  /\ change.PERFETTO_TESTS.text = ""
  /\ Len(tag_result) = 1

\* C2: when no affected file is under one of the two prefixes (also when
\* there is no affected file), CheckPerfettoTestsTag returns the empty
\* sequence, whatever PERFETTO_TESTS is.
C2_EmptyWhenNoFileMatches ==
  (tag_pc = "returned" /\ MatchingFiles = {}) => tag_result = <<>>

\* Files outside the prefixes, no PERFETTO_TESTS field, empty result.
C2_Witness ==
  /\ tag_pc = "returned"
  /\ Len(change.files) = 2
  /\ MatchingFiles = {}
  /\ ~change.PERFETTO_TESTS.present
  /\ tag_result = <<>>

\* C3: when at least one affected file is under one of the two prefixes and
\* PERFETTO_TESTS is truthy, CheckPerfettoTestsTag returns the empty sequence.
C3_EmptyWhenTagPresent ==
  (tag_pc = "returned" /\ MatchingFiles # {} /\ ~TagFalsy) => tag_result = <<>>

\* base/tracing/stdlib/foo.sql with PERFETTO_TESTS=ran locally.
C3_Witness ==
  /\ tag_pc = "returned"
  /\ change.files = <<PathStdlibFoo>>
  /\ change.PERFETTO_TESTS.text = "ran locally"
  /\ host_calls = <<"AffectedFiles", "PERFETTO_TESTS">>
  /\ tag_result = <<>>

\* C4: once the child was started and has terminated, CheckSqlModules
\* returns the empty sequence for every exit status.
C4_EmptyForEveryExitCode ==
  (sql_pc = "returned") => (child = "exited" /\ sql_result = <<>>)

\* The tool failed and the check still reports nothing.
C4_Witness ==
  /\ sql_pc = "returned"
  /\ returncode # 0
  /\ sql_result = <<>>

\* C5: when subprocess.call cannot start the child, CheckSqlModules does not
\* return: the failure leaves it, with no second attempt and no result.
C5_LaunchFailurePropagates ==
  (calls >= 1 /\ spawned = <<>>) =>
    /\ sql_pc = "raised"
    /\ calls = 1
    /\ child = "none"

C5_Witness ==
  /\ sql_pc = "raised"
  /\ calls = 1
  /\ spawned = <<>>

\* C6: CheckSqlModules starts exactly one child and returns only after it
\* has terminated; while a child that never exits hangs, the check waits;
\* once the child has exited, the check eventually returns.
C6_BlocksUntilChildExits ==
  /\ [](sql_pc = "returned" => (Len(spawned) = 1 /\ child = "exited"))
  /\ [](child = "hung" => sql_pc = "waiting")
  /\ [](Len(spawned) <= 1 /\ calls <= 1)
  /\ ((child = "exited") ~> (sql_pc = "returned"))

C6_Witness ==
  /\ sql_pc = "returned"
  /\ child = "exited"
  /\ Len(spawned) = 1
  /\ calls = 1

\* C7: every command CheckSqlModules runs is the four-element list
\* [python3, join(P, '..', '..', 'third_party', 'perfetto', 'tools',
\* 'check_sql_modules.py'), '--stdlib-sources', './stdlib/chrome'], whose
\* tool path is P, two levels up, then third_party/perfetto/tools/
\* check_sql_modules.py.
C7_ExactCommand ==
  \A i \in DOMAIN spawned :
    /\ Len(spawned[i]) = 4
    /\ spawned[i][1] = python3_executable
    /\ spawned[i][2] =
         Join(presubmit_local_path,
              <<DotDot, DotDot, ThirdParty, Perfetto, Tools,
                CheckSqlModulesPy>>)
    /\ spawned[i][2] = presubmit_local_path \o UpTwoSuffix \o ToolSuffix
    /\ spawned[i][3] = StdlibSourcesFlag
    /\ spawned[i][4] = StdlibChromeDir

C7_Witness ==
  /\ Len(spawned) = 1
  /\ python3_executable = Python3B
  /\ presubmit_local_path = LocalPathB
  /\ spawned[1] = cmd

\* C8: CheckPerfettoTestsTag filters the affected files before it looks at
\* the description; when no file matches it returns the empty sequence
\* without reading PERFETTO_TESTS, which is read only when a file matched.
C8_FilterBeforeDescription ==
  /\ host_calls \in {<<>>, <<"AffectedFiles">>,
                     <<"AffectedFiles", "PERFETTO_TESTS">>}
  /\ (Len(host_calls) = 2) => (MatchingFiles # {})
  /\ (tag_pc = "returned" /\ MatchingFiles = {}) =>
       (host_calls = <<"AffectedFiles">> /\ tag_result = <<>>)

\* unrelated/file.cc alone: returned without reading the field.
C8_Witness ==
  /\ tag_pc = "returned"
  /\ change.files = <<PathUnrelated>>
  /\ host_calls = <<"AffectedFiles">>

\* C9: the filter keeps exactly the files whose path begins with
\* base/tracing/stdlib/ or base/tracing/test/; a path that holds one of them
\* later, or a sibling such as base/tracing/stdlib_extra/x or
\* base/tracing/tests/x, is not kept, and with a missing tag a change of
\* such files yields the empty sequence.
C9_PrefixAnchored ==
  /\ (tag_pc # "start") =>
       (filtered = SelectSeq(change.files, UnderStdlibOrTest))
  /\ (tag_pc = "returned" /\ TagFalsy) =>
       ((tag_result # <<>>) <=> (MatchingFiles # {}))

C9_Witness ==
  /\ tag_pc = "returned"
  /\ TagFalsy
  /\ \E i \in DOMAIN change.files : change.files[i] = PathStdlibExtra
  /\ \E i \in DOMAIN change.files : change.files[i] \in {PathNested, PathTests}
  /\ filtered = <<>>
  /\ tag_result = <<>>

\* What CheckPerfettoTestsTag returns for the change when it runs alone.
TagResultAlone ==
  IF MatchingFiles # {} /\ TagFalsy
    THEN <<[kind |-> "PresubmitNotifyResult", message |-> MESSAGE]>>
    ELSE <<>>

C10_Step ==
  /\ hostVars' = hostVars
  /\ (sqlVars' = sqlVars) \/ (tagVars' = tagVars)
  /\ (tag_pc' = "returned") => (tag_result' = TagResultAlone)
  /\ (sql_pc' = "returned") => (sql_result' = <<>>)

\* C10: the two checks do not interfere.  No step changes the host's
\* context; a step of one check leaves the other's state alone (so
\* CheckPerfettoTestsTag starts no child); and under every interleaving each
\* check returns what it returns alone: CheckSqlModules the empty sequence,
\* CheckPerfettoTestsTag a value fixed by the change.
C10_Independent ==
  [][C10_Step]_vars

\* CheckPerfettoTestsTag ran from start to end while CheckSqlModules was
\* waiting for its child.
C10_Witness ==
  /\ sql_pc = "waiting"
  /\ child = "running"
  /\ tag_pc = "returned"
  /\ tag_result # <<>>

====
